---------------------------- MODULE Spec2Model ----------------------------
(***************************************************************************)
(* Model of the identifier classification / checksum engine of main.py and *)
(* of the "Validate All" batch loop that drives it.                        *)
(*                                                                         *)
(* A Python str is a sequence of characters; a character is a one-letter   *)
(* TLA+ string.  Two non-ASCII characters and the newline are part of the  *)
(* character universe and are written by their code point:                 *)
(*    "U+0968"  DEVANAGARI DIGIT TWO (matched by \d, int() gives 2,        *)
(*              str.isdigit() is true, not in CODE_POINTS)                 *)
(*    "U+00DF"  LATIN SMALL LETTER SHARP S (str.upper() gives "SS")        *)
(*    "\n"      LINE FEED (a trailing one is tolerated by $ in re.match)   *)
(***************************************************************************)
EXTENDS Naturals, Integers, Sequences, FiniteSets

VARIABLES
  ids,      \* the token list of the running batch
  results,  \* the rows appended so far
  log,      \* the rows log_attempt appended to validation_log.csv
  calls,    \* which core functions the loop invoked, per token index
  pc,       \* position of the script / stage of a function experiment
  num,      \* argument of the function under study
  typ,      \* id_type argument
  alt,      \* second argument: num with one character replaced
  out,      \* value returned for num
  out_alt,  \* value returned for alt
  exc       \* exception raised by the call on num ("None" if none)

vars == <<ids, results, log, calls, pc, num, typ, alt, out, out_alt, exc>>

fnVars == <<num, typ, alt, out, out_alt, exc>>

---------------------------------------------------------------------------
(* Constant tables                                                         *)

verhoeff_d ==
  << <<0,1,2,3,4,5,6,7,8,9>>,
     <<1,2,3,4,0,6,7,8,9,5>>,
     <<2,3,4,0,1,7,8,9,5,6>>,
     <<3,4,0,1,2,8,9,5,6,7>>,
     <<4,0,1,2,3,9,5,6,7,8>>,
     <<5,9,8,7,6,0,4,3,2,1>>,
     <<6,5,9,8,7,1,0,4,3,2>>,
     <<7,6,5,9,8,2,1,0,4,3>>,
     <<8,7,6,5,9,3,2,1,0,4>>,
     <<9,8,7,6,5,4,3,2,1,0>> >>

verhoeff_p ==
  << <<0,1,2,3,4,5,6,7,8,9>>,
     <<1,5,7,6,2,8,3,0,9,4>>,
     <<5,8,0,3,7,9,6,1,4,2>>,
     <<8,9,1,6,0,4,3,5,2,7>>,
     <<9,4,5,3,1,2,6,8,7,0>>,
     <<4,2,8,6,5,7,3,9,0,1>>,
     <<2,7,9,3,8,0,6,4,1,5>>,
     <<7,0,4,6,9,1,3,2,5,8>> >>

CODE_POINTS ==
  << "0","1","2","3","4","5","6","7","8","9",
     "A","B","C","D","E","F","G","H","I","J","K","L","M",
     "N","O","P","Q","R","S","T","U","V","W","X","Y","Z" >>

modulus == 36

---------------------------------------------------------------------------
(* Characters and the str methods the code uses                            *)

Range(s) == { s[i] : i \in 1..Len(s) }

LowerLetters ==
  << "a","b","c","d","e","f","g","h","i","j","k","l","m",
     "n","o","p","q","r","s","t","u","v","w","x","y","z" >>

AsciiDigits == { CODE_POINTS[i] : i \in 1..10 }

UpperSet == { CODE_POINTS[i] : i \in 11..36 }

\* The characters \d matches in a str pattern: every Unicode decimal digit.
DecimalChars == AsciiDigits \cup {"U+0968"}

\* list.index / str.index, 0-based; only used where the element is present.
index(seq, ch) == (CHOOSE i \in 1..Len(seq) : seq[i] = ch) - 1

\* int(d) for a one-character string d that is a decimal digit.
int(d) == IF d = "U+0968" THEN 2 ELSE index(CODE_POINTS, d)

\* int(d) raises ValueError for any other character.
int_raises(d) == d \notin DecimalChars

\* str.upper() of one character: a string of one or two characters.
upper_char(ch) ==
  IF ch \in Range(LowerLetters) THEN << CODE_POINTS[11 + index(LowerLetters, ch)] >>
  ELSE IF ch = "U+00DF" THEN << "S", "S" >>
  ELSE << ch >>

RECURSIVE upper(_)
upper(s) == IF s = << >> THEN << >> ELSE upper_char(Head(s)) \o upper(Tail(s))

\* reversed(s) and s[::-1]
reversed(s) == [ i \in 1..Len(s) |-> s[Len(s) + 1 - i] ]

\* s[:n] for n >= 0 and s[:-1]
prefix(s, n) == SubSeq(s, 1, IF n < Len(s) THEN n ELSE Len(s))

but_last(s) == IF Len(s) = 0 THEN << >> ELSE SubSeq(s, 1, Len(s) - 1)

\* str.isdigit(): non-empty and every character a digit character.
isdigit(s) == Len(s) > 0 /\ \A i \in 1..Len(s) : s[i] \in DecimalChars

---------------------------------------------------------------------------
(* Regular expressions: a pattern is a sequence of items, each a character *)
(* class repeated between lo and hi times; ^ and $ anchor both ends.       *)

Item(cls, lo, hi) == [ cls |-> cls, lo |-> lo, hi |-> hi ]

RECURSIVE fullmatch(_, _)
fullmatch(pat, s) ==
  IF pat = << >> THEN s = << >>
  ELSE \E n \in Head(pat).lo .. Head(pat).hi :
         /\ n <= Len(s)
         /\ \A i \in 1..n : s[i] \in Head(pat).cls
         /\ fullmatch(Tail(pat), SubSeq(s, n + 1, Len(s)))

\* re.match with a pattern ending in $: the match may also end just before
\* one trailing newline.
match_dollar(pat, s) ==
  \/ fullmatch(pat, s)
  \/ Len(s) > 0 /\ s[Len(s)] = "\n" /\ fullmatch(pat, but_last(s))

\* r'^[2-9]\d{11}$'
AadhaarPattern ==
  << Item({"2","3","4","5","6","7","8","9"}, 1, 1), Item(DecimalChars, 11, 11) >>

\* r'^\d{2}[A-Z]{5}\d{4}[A-Z][1-9A-Z]Z[0-9A-Z]$'
GstinPattern ==
  << Item(DecimalChars, 2, 2), Item(UpperSet, 5, 5), Item(DecimalChars, 4, 4),
     Item(UpperSet, 1, 1), Item((AsciiDigits \ {"0"}) \cup UpperSet, 1, 1),
     Item({"Z"}, 1, 1), Item(AsciiDigits \cup UpperSet, 1, 1) >>

\* r'^\d{15}$'
ImeiPattern == << Item(DecimalChars, 15, 15) >>

\* r'^\d{13,19}$'
CardPattern == << Item(DecimalChars, 13, 19) >>

---------------------------------------------------------------------------
(* validate_aadhaar                                                        *)

RECURSIVE verhoeff_loop(_, _, _)
verhoeff_loop(rev, i, c) ==
  IF i = Len(rev) THEN c
  ELSE verhoeff_loop(rev, i + 1,
         verhoeff_d[c + 1][verhoeff_p[(i % 8) + 1][int(rev[i + 1]) + 1] + 1])

\* Variant that starts the enumeration one digit late (the rightmost digit
\* never enters the checksum).
validate_aadhaar_skip(s) ==
  IF ~ fullmatch(AadhaarPattern, s) THEN FALSE
  ELSE verhoeff_loop(reversed(s), 1, 0) = 0

validate_aadhaar(s) ==
  IF ~ fullmatch(AadhaarPattern, s) THEN FALSE
  ELSE verhoeff_loop(reversed(s), 0, 0) = 0

---------------------------------------------------------------------------
(* luhn_mod10                                                              *)

luhn_raises(s) == \E i \in 1..Len(s) : int_raises(s[i])

luhn_digit(i, d) ==
  IF i % 2 = 1
  THEN (IF 2 * int(d) > 9 THEN 2 * int(d) - 9 ELSE 2 * int(d))
  ELSE int(d)

RECURSIVE luhn_loop(_, _, _)
luhn_loop(reverse_digits, i, total) ==
  IF i = Len(reverse_digits) THEN total
  ELSE luhn_loop(reverse_digits, i + 1, total + luhn_digit(i, reverse_digits[i + 1]))

RECURSIVE luhn_loop_even(_, _, _)
luhn_loop_even(reverse_digits, i, total) ==
  IF i = Len(reverse_digits) THEN total
  ELSE luhn_loop_even(reverse_digits, i + 1,
                      total + luhn_digit(i + 1, reverse_digits[i + 1]))

\* Variant that doubles the digits at even positions from the right.
luhn_mod10_even(s) ==
  IF luhn_raises(s) THEN FALSE
  ELSE (luhn_loop_even(reversed(s), 0, 0) % 10) = 0

\* The value returned when no ValueError is raised (luhn_raises).
luhn_mod10(s) ==
  IF luhn_raises(s) THEN FALSE
  ELSE (luhn_loop(reversed(s), 0, 0) % 10) = 0

---------------------------------------------------------------------------
(* gstin_checksum, validate_gstin                                          *)

\* charset.index(char) raises ValueError for a character outside charset.
gstin_checksum_raises(body) == \E i \in 1..Len(body) : body[i] \notin Range(CODE_POINTS)

fold(addend) == (addend \div modulus) + (addend % modulus)

RECURSIVE gstin_loop(_, _, _, _)
gstin_loop(rev, k, factor, total) ==
  IF k = Len(rev) THEN total
  ELSE gstin_loop(rev, k + 1, IF factor = 2 THEN 1 ELSE 2,
                  total + fold(factor * index(CODE_POINTS, rev[k + 1])))

RECURSIVE gstin_loop_nofold(_, _, _, _)
gstin_loop_nofold(rev, k, factor, total) ==
  IF k = Len(rev) THEN total
  ELSE gstin_loop_nofold(rev, k + 1, IF factor = 2 THEN 1 ELSE 2,
                         total + factor * index(CODE_POINTS, rev[k + 1]))

check_char(total) == CODE_POINTS[((modulus - (total % modulus)) % modulus) + 1]

\* Variant without the base-36 folding of the addend.
gstin_checksum_nofold(body) ==
  IF gstin_checksum_raises(body) THEN "ValueError"
  ELSE check_char(gstin_loop_nofold(reversed(body), 0, 2, 0))

\* The character returned; "ValueError" stands for the raised exception.
gstin_checksum(body) ==
  IF gstin_checksum_raises(body) THEN "ValueError"
  ELSE check_char(gstin_loop(reversed(body), 0, 2, 0))

validate_gstin_raises(s) ==
  /\ match_dollar(GstinPattern, upper(s))
  /\ gstin_checksum_raises(but_last(upper(s)))

\* The value returned when no ValueError is raised (validate_gstin_raises).
validate_gstin(s) ==
  IF ~ match_dollar(GstinPattern, upper(s)) THEN FALSE
  ELSE upper(s)[Len(upper(s))] = gstin_checksum(but_last(upper(s)))

---------------------------------------------------------------------------
(* detect_type, validate_id, fraud_flags                                   *)

\* Variant that tests the card rule before the IMEI rule.
detect_type_card_first(s) ==
  IF fullmatch(AadhaarPattern, upper(s)) THEN "Aadhaar"
  ELSE IF fullmatch(GstinPattern, upper(s)) /\ Len(upper(s)) = 15 THEN "GSTIN"
  ELSE IF fullmatch(CardPattern, upper(s)) THEN "Card"
  ELSE IF fullmatch(ImeiPattern, upper(s)) THEN "IMEI"
  ELSE "None"

\* Variant whose Aadhaar rule is \d{12}, without the [2-9] start.
detect_type_any_start(s) ==
  IF fullmatch(<< Item(DecimalChars, 12, 12) >>, upper(s)) THEN "Aadhaar"
  ELSE IF fullmatch(GstinPattern, upper(s)) /\ Len(upper(s)) = 15 THEN "GSTIN"
  ELSE IF fullmatch(ImeiPattern, upper(s)) THEN "IMEI"
  ELSE IF fullmatch(CardPattern, upper(s)) THEN "Card"
  ELSE "None"

\* "None" stands for Python's None.
detect_type(s) ==
  IF fullmatch(AadhaarPattern, upper(s)) THEN "Aadhaar"
  ELSE IF fullmatch(GstinPattern, upper(s)) /\ Len(upper(s)) = 15 THEN "GSTIN"
  ELSE IF fullmatch(ImeiPattern, upper(s)) THEN "IMEI"
  ELSE IF fullmatch(CardPattern, upper(s)) THEN "Card"
  ELSE "None"

validate_id_raises(s, id_type) ==
  \/ id_type = "GSTIN" /\ validate_gstin_raises(s)
  \/ id_type \in {"IMEI", "Card"} /\ luhn_raises(s)

validate_id(s, id_type) ==
  IF id_type = "Aadhaar" THEN validate_aadhaar(s)
  ELSE IF id_type = "GSTIN" THEN validate_gstin(s)
  ELSE IF id_type \in {"IMEI", "Card"} THEN luhn_mod10(s)
  ELSE FALSE

\* num[0] raises IndexError on an empty string.
fraud_flags_raises(s, id_type) == id_type = "Aadhaar" /\ Len(s) = 0

fraud_flags(s, id_type) ==
  (IF Cardinality(Range(s)) <= 2 THEN << "Repeated digits" >> ELSE << >>)
  \o (IF id_type = "Aadhaar" /\ Len(s) > 0 /\ s[1] \in {"0", "1"}
      THEN << "Invalid Aadhaar start digit" >> ELSE << >>)
  \o (IF id_type = "GSTIN" /\ ~ isdigit(prefix(s, 2))
      THEN << "Invalid GSTIN state code" >> ELSE << >>)

---------------------------------------------------------------------------
(* Input construction                                                      *)

MaxLen == 20

MaxTokens == 2

\* The string of the characters of CODE_POINTS with the given code points.
Str(cps) == [ i \in 1..Len(cps) |-> CODE_POINTS[cps[i] + 1] ]

Rep(c, n) == [ i \in 1..n |-> c ]

\* a b a b ... of length n
Alternate(a, b, n) == [ i \in 1..n |-> IF i % 2 = 1 THEN a ELSE b ]

Subst(s, i, c) == [ s EXCEPT ![i] = c ]

Card4539_67 == Str(<<4,5,3,9,1,4,8,8,0,3,4,3,6,4,6,7>>)

Card4539_68 == Str(<<4,5,3,9,1,4,8,8,0,3,4,3,6,4,6,8>>)

Gstin27 == <<"2","7","A","A","P","F","U","0","9","3","9","F","1","Z","V">>

GstinZZ == <<"1","1","Z","Z","Z","Z","Z","1","1","1","1","Z","Z","Z","Z">>

GstinMixed == <<"1","1","z","z","z","z","z","1","1","1","1","z","z","z","Z">>

GstinDevanagari ==
  <<"U+0968","U+0968","A","A","A","A","A","1","1","1","1","A","1","Z","A">>

TokenPool ==
  { Str(<<2,3,4,5,6,7,8,9,0,1,2,4>>),        \* Aadhaar, checksum holds
    Str(<<2,3,4,5,6,7,8,9,0,1,2,5>>),        \* Aadhaar, checksum fails
    Rep("2", 12),                            \* Aadhaar, one distinct digit
    Str(<<1,2,3,4,5,6,7,8,9,0,1,2>>),        \* 12 digits starting with 1
    Subst(Str(<<2,2,3,4,1,2,3,4,1,2,3,4>>), 2, "U+0968"),
    Gstin27,
    << "2","7","a","a","p","f","u","0","9","3","9","f","1","z","v" >>,
    Subst(Gstin27, 15, "A"),                 \* GSTIN, wrong check character
    Subst(Gstin27, 14, "0"),                 \* 14th character not Z
    GstinZZ,
    GstinMixed,
    GstinDevanagari,
    << "1","1","U+00DF","A","A","A","1","1","1","1","A","1","Z","A" >>,
    Str(<<1,2,3,4,5,6,7,8,9,0,1,2,3,4,5>>),  \* IMEI, checksum fails
    Str(<<4,9,0,1,5,4,2,0,3,2,3,7,5,1,8>>),  \* IMEI, checksum holds
    Card4539_67,
    Card4539_68,
    Rep("1", 13),                            \* Card, one distinct digit
    Rep("7", MaxLen),                        \* too long for a card
    << "a", "b", "c" >> }

TokenLists == UNION { [ 1..n -> TokenPool ] : n \in 0..MaxTokens }

---------------------------------------------------------------------------
(* The "Validate All" run of the script                                    *)

RECURSIVE join(_, _)
join(sep, strs) ==
  IF strs = << >> THEN ""
  ELSE IF Len(strs) = 1 THEN strs[1]
  ELSE strs[1] \o sep \o join(sep, Tail(strs))

\* Variant that also runs the heuristics on an unrecognized token.
loop_body_flag_all(id_num) ==
  LET id_type == detect_type(id_num) IN
  IF validate_id_raises(id_num, id_type)
  THEN [ id_type |-> id_type, raised |-> TRUE, valid |-> FALSE, flags |-> << >>,
         called |-> << "detect_type", "validate_id" >> ]
  ELSE [ id_type |-> id_type, raised |-> FALSE,
         valid |-> validate_id(id_num, id_type),
         flags |-> (IF id_type = "None" THEN << "Unrecognized or invalid format" >>
                    ELSE << >>) \o fraud_flags(id_num, id_type),
         called |-> << "detect_type", "validate_id", "fraud_flags" >> ]

\* Lines 163-169: the locals of one iteration, whether it raised, and the
\* core functions it called.
loop_body(id_num) ==
  LET id_type == detect_type(id_num) IN
  IF id_type = "None"
  THEN [ id_type |-> id_type, raised |-> FALSE, valid |-> FALSE,
         flags |-> << "Unrecognized or invalid format" >>,
         called |-> << "detect_type" >> ]
  ELSE IF validate_id_raises(id_num, id_type)
  THEN [ id_type |-> id_type, raised |-> TRUE, valid |-> FALSE, flags |-> << >>,
         called |-> << "detect_type", "validate_id" >> ]
  ELSE IF fraud_flags_raises(id_num, id_type)
  THEN [ id_type |-> id_type, raised |-> TRUE, valid |-> FALSE, flags |-> << >>,
         called |-> << "detect_type", "validate_id", "fraud_flags" >> ]
  ELSE [ id_type |-> id_type, raised |-> FALSE,
         valid |-> validate_id(id_num, id_type),
         flags |-> fraud_flags(id_num, id_type),
         called |-> << "detect_type", "validate_id", "fraud_flags" >> ]

\* Lines 180-185: the row appended to results.
Row(id_num, b) ==
  [ ID_Number |-> id_num,
    Type      |-> IF b.id_type = "None" THEN "Unknown" ELSE b.id_type,
    Valid     |-> IF b.valid THEN "Yes" ELSE "No",
    Flags     |-> IF b.flags # << >> THEN join(", ", b.flags) ELSE "-" ]

\* Line 117: the row written to the log (the timestamp is left out).
LogRow(id_num, b) ==
  << id_num, IF b.id_type = "None" THEN "Unknown" ELSE b.id_type, b.valid,
     join(";", b.flags) >>

FnIdle ==
  /\ num = << >> /\ typ = "None" /\ alt = << >>
  /\ out = FALSE /\ out_alt = FALSE /\ exc = "None"

Init ==
  /\ ids = << >> /\ results = << >> /\ log = << >> /\ calls = << >>
  /\ pc = "idle"
  /\ FnIdle

\* Lines 158-160: the button is pressed and the text is split into tokens.
ValidateAll ==
  /\ pc = "idle"
  /\ \E toks \in TokenLists : ids' = toks
  /\ results' = << >>
  /\ pc' = "loop"
  /\ UNCHANGED <<log, calls, fnVars>>

\* Lines 162-185: one iteration of the loop.
LoopBody ==
  /\ pc = "loop"
  /\ Len(results) < Len(ids)
  /\ LET k      == Len(results) + 1
         id_num == ids[k]
         b      == loop_body(id_num)
     IN /\ calls' = calls \o [ j \in 1..Len(b.called) |-> [ fn |-> b.called[j], k |-> k ] ]
        /\ IF b.raised
           THEN /\ pc' = "raised"
                /\ UNCHANGED <<results, log>>
           ELSE /\ log' = Append(log, LogRow(id_num, b))
                /\ results' = Append(results, Row(id_num, b))
                /\ pc' = pc
  /\ UNCHANGED <<ids, fnVars>>

\* Lines 187-192: the table and the report are built from results.
Report ==
  /\ pc = "loop"
  /\ Len(results) = Len(ids)
  /\ pc' = "done"
  /\ UNCHANGED <<ids, results, log, calls, fnVars>>

Next == ValidateAll \/ LoopBody \/ Report

Spec == Init /\ [][Next]_vars

---------------------------------------------------------------------------
(* Properties of the batch run                                             *)

\* C2: every row whose type is Unrecognized ("Unknown") has Valid = "No" and
\* exactly the one flag "Unrecognized or invalid format", and for a token
\* that detect_type does not recognize the loop calls neither validate_id
\* nor fraud_flags.
C2_UnrecognizedRow ==
  /\ \A k \in 1..Len(results) :
       results[k].Type = "Unknown" =>
         /\ results[k].Valid = "No"
         /\ results[k].Flags = "Unrecognized or invalid format"
  /\ \A j \in 1..Len(calls) :
       detect_type(ids[calls[j].k]) = "None" => calls[j].fn = "detect_type"

C2_Witness ==
  /\ pc = "done"
  /\ \E k \in 1..Len(results) :
       results[k].Type = "Unknown" /\ results[k].ID_Number = << "a", "b", "c" >>

\* C7: the run ends with exactly one row per token, the k-th row carrying
\* the k-th token; at every point the rows are those of the first tokens in
\* input order.
C7_OneRowPerToken ==
  /\ pc \in {"done", "raised"} => Len(results) = Len(ids)
  /\ Len(results) <= Len(ids)
  /\ \A k \in 1..Len(results) : results[k].ID_Number = ids[k]

\* C8: no iteration of the loop raises, and gstin_checksum is only called
\* with a body over the alphabet 0-9A-Z, fraud_flags only with a non-empty
\* value.
C8_NeverRaises ==
  /\ pc # "raised"
  /\ \A j \in 1..Len(calls) :
       /\ (calls[j].fn = "validate_id" /\ detect_type(ids[calls[j].k]) = "GSTIN")
            => ~ gstin_checksum_raises(but_last(upper(ids[calls[j].k])))
       /\ calls[j].fn = "fraud_flags" => Len(ids[calls[j].k]) > 0

\* C9: the row of a token has the same Type, Valid and Flags as the row the
\* loop produces for the upper-cased token.
C9_CaseInsensitive ==
  \A k \in 1..Len(results) :
    LET u == upper(ids[k])
        r == Row(u, loop_body(u))
    IN /\ results[k].Type = r.Type
       /\ results[k].Valid = r.Valid
       /\ results[k].Flags = r.Flags

\* C10: the row of a recognized token has no flag or exactly the flag
\* "Repeated digits"; the GSTIN state-code flag and the Aadhaar start-digit
\* flag never appear in a row or in the log.
C10_OnlyRepeatedDigits ==
  /\ \A k \in 1..Len(results) :
       results[k].Type # "Unknown" => results[k].Flags \in {"-", "Repeated digits"}
  /\ \A k \in 1..Len(log) :
       log[k][2] # "Unknown" => log[k][4] \in {"", "Repeated digits"}

C10_Witness ==
  \E k \in 1..Len(results) :
    /\ results[k].Type = "GSTIN"
    /\ results[k].Flags = "Repeated digits"
    /\ \E m \in 1..Len(results) : results[m].Type = "Aadhaar" /\ results[m].Flags = "-"

---------------------------------------------------------------------------
(* detect_type applied to a bounded family of strings                      *)

BatchIdle ==
  ids = << >> /\ results = << >> /\ log = << >> /\ calls = << >>

ProbeChars == { "0", "5", "A", "z", "U+0968", "U+00DF", "-" }

DigitBases ==
  { << f >> \o Rep(d, n - 1) : f \in {"0", "1", "2", "9"}, d \in {"0", "5"}, n \in 1..MaxLen }

GstinBases ==
  { Gstin27, GstinZZ, GstinMixed, GstinDevanagari,
    << "2","7","a","a","p","f","u","0","9","3","9","f","1","z","v" >>,
    << "1","1","U+00DF","A","A","A","1","1","1","1","A","1","Z","A" >> }

DetectInputs ==
  LET bases == DigitBases \cup GstinBases \cup TokenPool \cup { << >> }
  IN bases
     \cup { Subst(b, i, c) : <<b, i>> \in { <<b, i>> \in bases \X (1..MaxLen) : i <= Len(b) },
                            c \in ProbeChars }
     \cup { Append(b, c) : b \in bases, c \in ProbeChars }

InitDetect ==
  /\ BatchIdle /\ pc = "input"
  /\ num \in DetectInputs
  /\ typ = "None" /\ alt = << >> /\ out = "None" /\ out_alt = "None" /\ exc = "None"

Detect ==
  /\ pc = "input"
  /\ out' = detect_type(num)
  /\ pc' = "detected"
  /\ UNCHANGED <<ids, results, log, calls, num, typ, alt, out_alt, exc>>

NextDetect == Detect

SpecDetect == InitDetect /\ [][NextDetect]_vars

AllDigits(s) == \A i \in 1..Len(s) : s[i] \in DecimalChars

GstinBodyShape(u) ==
  /\ Len(u) >= 14
  /\ \A i \in 1..2 : u[i] \in DecimalChars
  /\ \A i \in 3..7 : u[i] \in UpperSet
  /\ \A i \in 8..11 : u[i] \in DecimalChars
  /\ u[12] \in UpperSet
  /\ u[13] \in (AsciiDigits \ {"0"}) \cup UpperSet
  /\ u[14] = "Z"

GstinShape(u) ==
  /\ Len(u) = 15
  /\ GstinBodyShape(u)
  /\ u[15] \in AsciiDigits \cup UpperSet

\* The type of the first rule of the list that the upper-cased string meets.
FirstRule(s) ==
  LET u == upper(s) IN
  IF Len(u) = 12 /\ AllDigits(u) /\ u[1] \in {"2","3","4","5","6","7","8","9"} THEN "Aadhaar"
  ELSE IF GstinShape(u) THEN "GSTIN"
  ELSE IF Len(u) = 15 /\ AllDigits(u) THEN "IMEI"
  ELSE IF Len(u) \in 13..19 /\ AllDigits(u) THEN "Card"
  ELSE "None"

\* C1: detect_type returns the type of the first rule met, in the order
\* Aadhaar, GSTIN, IMEI, Card, else none; an all-digit string of length 15
\* is IMEI, and Card is returned only for all-digit strings of length 13,
\* 14, 16, 17, 18 or 19.
C1_FirstMatch ==
  pc = "detected" =>
    /\ out = FirstRule(num)
    /\ (AllDigits(num) /\ Len(num) = 15) => out = "IMEI"
    /\ out = "Card" => (AllDigits(num) /\ Len(num) \in {13, 14, 16, 17, 18, 19})

C1_Witness ==
  /\ pc = "detected"
  /\ num = Str(<<1,2,3,4,5,6,7,8,9,0,1,2,3,4,5>>)
  /\ out = "IMEI"

---------------------------------------------------------------------------
(* validate_aadhaar and single-digit replacement                           *)

AadhaarInputs ==
  { (<< f >> \o Alternate(a, b, 10)) \o << z >> :
      f \in {"2","3","4","5","6","7","8","9"}, a \in DecimalChars,
      b \in DecimalChars, z \in AsciiDigits }

InitAadhaar ==
  /\ BatchIdle /\ pc = "input"
  /\ num \in AadhaarInputs
  /\ typ = "Aadhaar" /\ alt = << >> /\ out = FALSE /\ out_alt = FALSE /\ exc = "None"

Validate_aadhaar ==
  /\ pc = "input"
  /\ out' = validate_aadhaar(num)
  /\ pc' = "validated"
  /\ UNCHANGED <<ids, results, log, calls, num, typ, alt, out_alt, exc>>

ReplaceDigit ==
  /\ pc = "validated"
  /\ out = TRUE
  /\ \E pos \in 1..Len(num) : \E c \in DecimalChars \ { num[pos] } :
       /\ alt' = Subst(num, pos, c)
       /\ out_alt' = validate_aadhaar(Subst(num, pos, c))
  /\ pc' = "replaced"
  /\ UNCHANGED <<ids, results, log, calls, num, typ, out, exc>>

NextAadhaar == Validate_aadhaar \/ ReplaceDigit

SpecAadhaar == InitAadhaar /\ [][NextAadhaar]_vars

\* The position at which alt differs from num.
ReplacedAt == CHOOSE i \in 1..Len(num) : alt[i] # num[i]

\* C4: when one digit of a 12-digit string accepted by validate_aadhaar is
\* replaced by a different digit, validate_aadhaar rejects the result.
C4_SingleDigit ==
  (pc = "replaced" /\ int(alt[ReplacedAt]) # int(num[ReplacedAt])) => out_alt = FALSE

C4_Witness ==
  /\ pc = "replaced"
  /\ num = Str(<<2,3,4,3,4,3,4,3,4,3,4,0>>)
  /\ alt = Str(<<2,3,4,3,4,3,4,3,4,3,4,8>>)
  /\ out = TRUE /\ out_alt = FALSE

---------------------------------------------------------------------------
(* validate_id for IMEI and Card: luhn_mod10                               *)

LuhnDigits == { "0", "1", "4", "5", "9", "U+0968" }

LuhnInputs ==
  { Card4539_67, Card4539_68 }
  \cup { Append(Alternate(a, b, n), z) :
           a \in LuhnDigits, b \in LuhnDigits, n \in 0..(MaxLen - 1), z \in DecimalChars }

InitLuhn ==
  /\ BatchIdle /\ pc = "input"
  /\ num \in LuhnInputs
  /\ typ = "None" /\ alt = << >> /\ out = FALSE /\ out_alt = FALSE /\ exc = "None"

Validate_id_luhn ==
  /\ pc = "input"
  /\ \E t \in {"IMEI", "Card"} :
       /\ typ' = t
       /\ out' = validate_id(num, t)
       /\ exc' = IF validate_id_raises(num, t) THEN "ValueError" ELSE "None"
  /\ pc' = "validated"
  /\ UNCHANGED <<ids, results, log, calls, num, alt, out_alt>>

NextLuhn == Validate_id_luhn

SpecLuhn == InitLuhn /\ [][NextLuhn]_vars

\* Sum of the digits of s from position i on, the digit at an odd 0-based
\* distance from the right end counted as its double, less 9 above 9.
RECURSIVE DoubledSum(_, _)
DoubledSum(s, i) ==
  IF i > Len(s) THEN 0
  ELSE LET v == int(s[i])
           w == IF (Len(s) - i) % 2 = 1 THEN (IF 2 * v > 9 THEN 2 * v - 9 ELSE 2 * v) ELSE v
       IN w + DoubledSum(s, i + 1)

\* C5: on a non-empty all-digit string validate_id for IMEI and for Card
\* returns luhn_mod10, which is true exactly when the doubled-digit sum is
\* divisible by 10; 4539148803436467 is valid, 4539148803436468 is not, and
\* among the ten final digits after a fixed prefix exactly one is valid.
C5_Luhn ==
  pc = "validated" =>
    /\ exc = "None"
    /\ out = luhn_mod10(num)
    /\ out = (DoubledSum(num, 1) % 10 = 0)
    /\ num = Card4539_67 => out = TRUE
    /\ num = Card4539_68 => out = FALSE
    /\ Cardinality({ z \in AsciiDigits : validate_id(Append(but_last(num), z), typ) }) = 1
    /\ \A t \in {"IMEI", "Card"} : validate_id(num, t) = out

C5_Witness ==
  /\ pc = "validated" /\ typ = "Card" /\ num = Card4539_67 /\ out = TRUE

---------------------------------------------------------------------------
(* validate_gstin                                                          *)

GstinBodies ==
  { (((<< d1, d2 >> \o Rep(l, 5)) \o Rep(d, 4)) \o << m, e, z >>) :
      d1 \in {"1", "2", "U+0968"}, d2 \in {"1", "7"}, l \in {"A", "Z", "a"},
      d \in {"1", "9"}, m \in {"F", "z"}, e \in {"0", "1", "Z"}, z \in {"Z", "z"} }

GstinFinals == Range(CODE_POINTS) \cup { "a", "v", "z", "-", "U+0968" }

GstinInputs ==
  { Append(b, c) : b \in GstinBodies \cup { prefix(Gstin27, 14) }, c \in GstinFinals }
  \cup { Append(Append(b, c), "\n") : b \in { prefix(Gstin27, 14), prefix(GstinZZ, 14) },
                                       c \in GstinFinals }
  \cup { prefix(s, n) : s \in GstinBases, n \in 0..14 }

InitGstin ==
  /\ BatchIdle /\ pc = "input"
  /\ num \in GstinInputs
  /\ typ = "GSTIN" /\ alt = << >> /\ out = FALSE /\ out_alt = FALSE /\ exc = "None"

Validate_gstin ==
  /\ pc = "input"
  /\ out' = validate_gstin(num)
  /\ exc' = IF validate_gstin_raises(num) THEN "ValueError" ELSE "None"
  /\ pc' = "validated"
  /\ UNCHANGED <<ids, results, log, calls, num, typ, alt, out_alt>>

NextGstin == Validate_gstin

SpecGstin == InitGstin /\ [][NextGstin]_vars

\* Sum over the body, read right to left with factor 2,1,2,1,..., of the
\* folded addends, from the j-th character from the right on.
RECURSIVE WeightedTotal(_, _)
WeightedTotal(body, j) ==
  IF j > Len(body) THEN 0
  ELSE LET addend == (IF j % 2 = 1 THEN 2 ELSE 1)
                       * index(CODE_POINTS, body[Len(body) + 1 - j])
       IN ((addend \div 36) + (addend % 36)) + WeightedTotal(body, j + 1)

ExpectedCheckChar(body) ==
  CODE_POINTS[((36 - (WeightedTotal(body, 1) % 36)) % 36) + 1]

InAlphabet(s) == \A i \in 1..Len(s) : s[i] \in Range(CODE_POINTS)

\* The right-hand side of the equivalence, on the upper-cased input.
ShapeAndCheckChar(v) ==
  LET u == upper(v) IN
  /\ GstinShape(u)
  /\ InAlphabet(u)
  /\ u[15] = ExpectedCheckChar(SubSeq(u, 1, 14))

ValidFinals(body) ==
  { c \in Range(CODE_POINTS) :
      ~ validate_gstin_raises(Append(body, c)) /\ validate_gstin(Append(body, c)) }

\* C3: validate_gstin returns true exactly when the upper-cased string has
\* the GSTIN shape and its 15th character is the check character of its
\* first 14; every shape-conforming 14-character body has exactly one final
\* character that makes the value valid.
C3_GstinIff ==
  pc = "validated" =>
    /\ (exc = "None" /\ out) = ShapeAndCheckChar(num)
    /\ (Len(upper(num)) >= 14 /\ GstinBodyShape(upper(num)))
         => Cardinality(ValidFinals(SubSeq(upper(num), 1, 14))) = 1

\* The same statement for the strings on which validate_gstin returns.
GstinIffWhereReturns ==
  (pc = "validated" /\ exc = "None") =>
    /\ out = ShapeAndCheckChar(num)
    /\ (Len(upper(num)) >= 14 /\ GstinBodyShape(upper(num)) /\ InAlphabet(prefix(upper(num), 14)))
         => Cardinality(ValidFinals(SubSeq(upper(num), 1, 14))) = 1

---------------------------------------------------------------------------
(* gstin_checksum and single-character replacement                         *)

BodyChars == { "0", "1", "9", "A", "H", "I", "R", "Z" }

ChecksumBodies ==
  { Alternate(a, b, 14) : a \in BodyChars, b \in BodyChars }
  \cup { prefix(Gstin27, 14), prefix(GstinZZ, 14) }

InitChecksum ==
  /\ BatchIdle /\ pc = "input"
  /\ num \in ChecksumBodies
  /\ typ = "GSTIN" /\ alt = << >> /\ out = "None" /\ out_alt = "None" /\ exc = "None"

Checksum ==
  /\ pc = "input"
  /\ out' = gstin_checksum(num)
  /\ pc' = "validated"
  /\ UNCHANGED <<ids, results, log, calls, num, typ, alt, out_alt, exc>>

ReplaceChar ==
  /\ pc = "validated"
  /\ \E pos \in 1..Len(num) : \E c \in Range(CODE_POINTS) \ { num[pos] } :
       /\ alt' = Subst(num, pos, c)
       /\ out_alt' = gstin_checksum(Subst(num, pos, c))
  /\ pc' = "replaced"
  /\ UNCHANGED <<ids, results, log, calls, num, typ, out, exc>>

NextChecksum == Checksum \/ ReplaceChar

SpecChecksum == InitChecksum /\ [][NextChecksum]_vars

\* C6: replacing one character of a 14-character body over 0-9A-Z by a
\* different character of that alphabet changes the check character.
C6_SingleChar ==
  pc = "replaced" => (out_alt # out /\ out \in Range(CODE_POINTS))

C6_Witness ==
  /\ pc = "replaced"
  /\ num = prefix(Gstin27, 14) /\ out = "V"
  /\ alt = Subst(prefix(Gstin27, 14), 14, "H")
  /\ out_alt # "V"

=============================================================================
